---- MODULE Spec2Model ----
(***************************************************************************)
(* Model of render/src/utils.rs: the bitmap decoding helpers of the        *)
(* renderer (format sniffing, JPEG table glueing and header repair, JPEG   *)
(* colour normalisation and alpha merge, DefineBitsLossless decoding).     *)
(*                                                                         *)
(* Every function of the file is pure, so a behaviour is one call: Init    *)
(* draws the arguments (and what the external decoders answer for them)    *)
(* into `call`, and the action for the called function stores its return   *)
(* value in `ret`.  Byte buffers are sequences of 0..255, 1-indexed here   *)
(* and 0-indexed in the source; Option is <<>> (None) or <<x>> (Some(x));  *)
(* a Rust panic (slice index out of bounds) is the result Panic.           *)
(***************************************************************************)
EXTENDS Integers, Sequences, FiniteSets, TLC

VARIABLES call, ret

vars == <<call, ret>>

---------------------------------------------------------------------------
(* Bounds of the inputs.                                                   *)

MaxBody == 4
MaxTables == 3
MaxChunks == 4

---------------------------------------------------------------------------
(* Rust values.                                                            *)

None == <<>>
Some(x) == <<x>>
is_some(o) == o # <<>>
unwrap(o) == o[1]

Ok(v) == [ok |-> TRUE, val |-> v]
(* An Err carries the error's variant and the variant's fields. *)
ErrWith(e, fields) == [ok |-> FALSE, err |-> e, fields |-> fields]
Err(e) == ErrWith(e, <<>>)
Panic == Err("panic")

Byte == 0..255

(* Sequences over S of length at most n. *)
SeqsUpTo(S, n) == UNION {[1..k -> S] : k \in 0..n}

(* data[from..] and data[..to] with the source's 0-based offsets. *)
SliceFrom(data, from) == SubSeq(data, from + 1, Len(data))
SliceTo(data, to) == SubSeq(data, 1, to)

(* <[u8]>::starts_with, also the slice patterns [a, b, ..]. *)
starts_with(data, prefix) ==
    /\ Len(data) >= Len(prefix)
    /\ SubSeq(data, 1, Len(prefix)) = prefix

RECURSIVE Concat(_)
Concat(ss) == IF ss = <<>> THEN <<>> ELSE Head(ss) \o Concat(Tail(ss))

---------------------------------------------------------------------------
(* determine_jpeg_tag_format                                               *)

SigJpeg == <<\hFF, \hD8>>
SigJpegErroneous == <<\hFF, \hD9, \hFF, \hD8>>
SigPng == <<\h89, \h50, \h4E, \h47, \h0D, \h0A, \h1A, \h0A>>
SigGif == <<\h47, \h49, \h46, \h38, \h39, \h61>>

(* Faulty variant: the GIF arm compares only the first four bytes. *)
determine_jpeg_tag_format_nogif(data) ==
    CASE starts_with(data, SigJpeg) -> "Jpeg"
      [] starts_with(data, SigJpegErroneous) -> "Jpeg"
      [] starts_with(data, SigPng) -> "Png"
      [] starts_with(data, SliceTo(SigGif, 4)) -> "Gif"
      [] OTHER -> "Unknown"

(* The match on the slice patterns, the arms tried in order. *)
determine_jpeg_tag_format(data) ==
    IF starts_with(data, SigJpeg) THEN "Jpeg"
    ELSE IF starts_with(data, SigJpegErroneous) THEN "Jpeg"
    ELSE IF starts_with(data, SigPng) THEN "Png"
    ELSE IF starts_with(data, SigGif) THEN "Gif"
    ELSE "Unknown"

---------------------------------------------------------------------------
(* glue_tables_to_jpeg                                                     *)

(* Faulty variant: the body keeps its leading two bytes. *)
glue_tables_to_jpeg_keep_soi(jpeg_data, jpeg_tables) ==
    IF is_some(jpeg_tables) /\ Len(unwrap(jpeg_tables)) >= 2
    THEN SliceTo(unwrap(jpeg_tables), Len(unwrap(jpeg_tables)) - 2) \o jpeg_data
    ELSE jpeg_data

glue_tables_to_jpeg(jpeg_data, jpeg_tables) ==
    IF is_some(jpeg_tables) /\ Len(unwrap(jpeg_tables)) >= 2
    THEN LET tables == unwrap(jpeg_tables)
             full_jpeg == SliceTo(tables, Len(tables) - 2)
         IN  IF Len(jpeg_data) >= 2
             THEN full_jpeg \o SliceFrom(jpeg_data, 2)
             ELSE full_jpeg
    ELSE jpeg_data

---------------------------------------------------------------------------
(* remove_invalid_jpeg_data                                                *)

(* data.windows(4).position(|w| w == pat) searched from 0-based offset     *)
(* `from`: Some(first offset whose window equals pat), else None.          *)
RECURSIVE windows_position(_, _, _)
windows_position(data, pat, from) ==
    IF from + Len(pat) > Len(data) THEN None
    ELSE IF SubSeq(data, from + 1, from + Len(pat)) = pat THEN Some(from)
    ELSE windows_position(data, pat, from + 1)

(* Faulty variant: the leading header is not stripped before the search. *)
remove_invalid_jpeg_data_no_strip(data0) ==
    LET pos == windows_position(data0, SigJpegErroneous, 0)
    IN  IF is_some(pos)
        THEN SliceTo(data0, unwrap(pos)) \o SliceFrom(data0, unwrap(pos) + 4)
        ELSE data0

remove_invalid_jpeg_data(data0) ==
    LET data == IF starts_with(data0, SigJpegErroneous)
                THEN SliceFrom(data0, 4) ELSE data0
        pos == windows_position(data, SigJpegErroneous, 0)
    IN  IF is_some(pos)
        THEN SliceTo(data, unwrap(pos)) \o SliceFrom(data, unwrap(pos) + 4)
        ELSE data

---------------------------------------------------------------------------
(* External collaborators.  A zlib stream is represented by what flate2    *)
(* makes of it: [valid |-> FALSE], or [valid |-> TRUE, plain |-> bytes].   *)
(* A JPEG stream is represented by what jpeg_decoder answers for it:       *)
(* Err(..), or Ok of the reported pixel format, dimensions and samples.    *)
(* Bitmap::new lives in crate::bitmap; a Bitmap is the record of its four  *)
(* arguments.                                                              *)

decompress_zlib(data) ==
    IF data.valid THEN Ok(data.plain) ELSE Err("InvalidZlibCompression")

Bitmap_new(width, height, format, pixels) ==
    [width |-> width, height |-> height, format |-> format, pixels |-> pixels]

---------------------------------------------------------------------------
(* decode_jpeg                                                             *)

U16 == 65536
U8 == 256

as_u8(x) == x % U8

(* Faulty variant: k = 255 - K. *)
cmyk_to_rgb_k255(cmyk) ==
    LET c == 255 - cmyk[1]
        m == 255 - cmyk[2]
        y == 255 - cmyk[3]
        k == 255 - cmyk[4]
    IN  <<as_u8(((c * k) % U16) \div 255),
          as_u8(((m * k) % U16) \div 255),
          as_u8(((y * k) % U16) \div 255)>>

(* The closure of the CMYK32 arm: u16 arithmetic, then `as u8`. *)
cmyk_to_rgb(cmyk) ==
    LET c == 255 - cmyk[1]
        m == 255 - cmyk[2]
        y == 255 - cmyk[3]
        k == 256 - cmyk[4]
        r == ((c * k) % U16) \div 255
        g == ((m * k) % U16) \div 255
        b == ((y * k) % U16) \div 255
    IN  <<as_u8(r), as_u8(g), as_u8(b)>>

(* decoded_data.chunks_exact(4).flat_map(closure).collect(): a trailing    *)
(* chunk shorter than 4 bytes is dropped.                                  *)
RECURSIVE cmyk32_to_rgb24(_)
cmyk32_to_rgb24(decoded_data) ==
    IF Len(decoded_data) < 4 THEN <<>>
    ELSE cmyk_to_rgb(SubSeq(decoded_data, 1, 4))
             \o cmyk32_to_rgb24(SliceFrom(decoded_data, 4))

RECURSIVE l8_to_rgb24(_)
l8_to_rgb24(decoded_data) ==
    IF decoded_data = <<>> THEN <<>>
    ELSE LET elem == Head(decoded_data)
         IN  <<elem, elem, elem>> \o l8_to_rgb24(Tail(decoded_data))

normalize_pixel_format(pixel_format, decoded_data) ==
    CASE pixel_format = "RGB24" -> decoded_data
      [] pixel_format = "CMYK32" -> cmyk32_to_rgb24(decoded_data)
      [] pixel_format = "L8" -> l8_to_rgb24(decoded_data)
      [] pixel_format = "L16" -> decoded_data

Min(a, b) == IF a <= b THEN a ELSE b

(* Indexing a Vec at 0-based offset i panics when i is out of bounds. *)
InBounds(v, i) == i < Len(v)
At(v, i) == v[i + 1]

(* The while loop of the alpha merge, from offsets i and a with rgba built *)
(* so far: Ok(rgba), or Panic on an index out of bounds.                   *)
RECURSIVE merge_alpha(_, _, _, _, _)
merge_alpha(decoded_data, alpha_data, i, a, rgba) ==
    IF ~(i < Len(decoded_data)) THEN Ok(rgba)
    ELSE IF ~InBounds(alpha_data, a) \/ ~InBounds(decoded_data, i + 2) THEN Panic
    ELSE LET alpha == At(alpha_data, a)
         IN  merge_alpha(decoded_data, alpha_data, i + 3, a + 1,
                         rgba \o <<Min(At(decoded_data, i), alpha),
                                   Min(At(decoded_data, i + 1), alpha),
                                   Min(At(decoded_data, i + 2), alpha),
                                   alpha>>)

(* Faulty variant: a shorter alpha plane is accepted too. *)
alpha_size_matches_loose(alpha_data, decoded_data) ==
    Len(alpha_data) <= Len(decoded_data) \div 3

alpha_size_matches(alpha_data, decoded_data) ==
    Len(alpha_data) = Len(decoded_data) \div 3

(* `decoder` is jpeg_decoder's answer for remove_invalid_jpeg_data(jpeg_data). *)
decode_jpeg(jpeg_data, alpha_data, decoder) ==
    IF ~decoder.ok THEN Err("JpegError")
    ELSE
    LET metadata == decoder.val
        decoded_data ==
            normalize_pixel_format(metadata.pixel_format, metadata.decoded_data)
        no_alpha == Ok(Bitmap_new(metadata.width, metadata.height, "Rgb", decoded_data))
    IN  IF is_some(alpha_data)
        THEN LET alpha == decompress_zlib(unwrap(alpha_data))
             IN  IF ~alpha.ok THEN Err(alpha.err)
                 ELSE IF alpha_size_matches(alpha.val, decoded_data)
                 THEN LET rgba == merge_alpha(decoded_data, alpha.val, 0, 0, <<>>)
                      IN  IF rgba.ok
                          THEN Ok(Bitmap_new(metadata.width, metadata.height,
                                             "Rgba", rgba.val))
                          ELSE Panic
                 ELSE no_alpha
        ELSE no_alpha

(* decode_png and decode_gif hand the data to the png and gif crates and   *)
(* post-process what they return; `adapter` is the Result they end with.   *)
decode_png(data, adapter) == adapter
decode_gif(data, adapter) == adapter

---------------------------------------------------------------------------
(* decode_define_bits_jpeg                                                 *)

decode_define_bits_jpeg(data, alpha_data, decoder, adapter) ==
    LET format == determine_jpeg_tag_format(data)
    IN  CASE format = "Jpeg" -> decode_jpeg(data, alpha_data, decoder)
          [] format = "Png" -> decode_png(data, adapter)
          [] format = "Gif" -> decode_gif(data, adapter)
          [] format = "Unknown" -> Err("UnknownType")

DetermineJpegTagFormat ==
    /\ call.fn = "determine_jpeg_tag_format"
    /\ ret = None
    /\ ret' = Some(determine_jpeg_tag_format(call.data))
    /\ UNCHANGED call

DecodeDefineBitsJpeg ==
    /\ call.fn = "decode_define_bits_jpeg"
    /\ ret = None
    /\ ret' = Some(decode_define_bits_jpeg(call.data, call.alpha_data,
                                           call.decoder, call.adapter))
    /\ UNCHANGED call

---------------------------------------------------------------------------
(* Sample buffers: Gen(len, off, stride) reads len bytes of the cyclic     *)
(* SamplePattern from offset off in steps of stride.                       *)

SamplePattern == <<0, 10, 20, 30, 0, 40, 50, 60, 1, 2, 255, 3>>

Gen(len, off, stride) ==
    [i \in 1..len |->
        SamplePattern[((off + (i - 1) * stride) % Len(SamplePattern)) + 1]]

InvalidZlib == [valid |-> FALSE]
ValidZlib(plain) == [valid |-> TRUE, plain |-> plain]

JpegInfo(pixel_format, width, height, decoded_data) ==
    Ok([pixel_format |-> pixel_format, width |-> width, height |-> height,
        decoded_data |-> decoded_data])

PixelFormats == {"RGB24", "CMYK32", "L8", "L16"}

---------------------------------------------------------------------------
(* Calls of determine_jpeg_tag_format and decode_define_bits_jpeg on       *)
(* buffers around the four signatures: each signature (and two near        *)
(* misses), followed by MaxTail zero bytes, with at most one byte          *)
(* replaced, cut to every length.                                          *)

MaxTail == 1

SniffBases ==
    {SigJpeg, SigJpegErroneous, SigPng, SigGif,
     <<\h47, \h49, \h46, \h38, \h37, \h61>>,
     <<\hFF, \hD9, \hFF, \hD9>>}

SniffReplacements == {0, \hFF, \hD8, \h47, \h89}

SniffInputs ==
    UNION {
        LET full == base \o [i \in 1..MaxTail |-> 0]
        IN  {SliceTo(full, k) : k \in 0..Len(full)} \cup
            {SliceTo([full EXCEPT ![p] = b], k) :
                p \in 1..Len(full), b \in SniffReplacements, k \in 0..Len(full)}
        : base \in SniffBases}

SniffAlpha == {None, Some(InvalidZlib), Some(ValidZlib(<<255>>))}
SniffDecoders == {Err("JpegError"), JpegInfo("RGB24", 1, 1, <<10, 20, 30>>)}
SniffAdapters == {Err("EmptyGif"), Ok(Bitmap_new(1, 1, "Rgba", <<1, 2, 3, 4>>))}

InitSniff ==
    /\ \/ call \in [fn : {"determine_jpeg_tag_format"}, data : SniffInputs]
       \/ call \in [fn : {"decode_define_bits_jpeg"}, data : SniffInputs,
                    alpha_data : SniffAlpha, decoder : SniffDecoders,
                    adapter : SniffAdapters]
    /\ ret = None

NextSniff == DetermineJpegTagFormat \/ DecodeDefineBitsJpeg

SpecSniff == InitSniff /\ [][NextSniff]_vars

---------------------------------------------------------------------------
(* Calls of decode_define_bits_jpeg on JPEG data, over what the JPEG       *)
(* decoder reports and what the alpha plane decompresses to.               *)

MaxDecoded == 7
MaxAlpha == 3

JpegDatas == {SigJpeg \o <<0>>, SigJpegErroneous \o SigJpeg}

AlphaDecoders ==
    {JpegInfo(pf, 2, 1, Gen(len, off, 1)) :
        pf \in PixelFormats, len \in 0..MaxDecoded, off \in 0..3}

AlphaPlanes ==
    {None, Some(InvalidZlib)} \cup
    {Some(ValidZlib(Gen(len, off, 1))) : len \in 0..MaxAlpha, off \in {1, 7, 10}}

InitJpegAlpha ==
    /\ call \in [fn : {"decode_define_bits_jpeg"}, data : JpegDatas,
                 alpha_data : AlphaPlanes, decoder : AlphaDecoders,
                 adapter : {Err("EmptyGif")}]
    /\ ret = None

NextJpegAlpha == DecodeDefineBitsJpeg

SpecJpegAlpha == InitJpegAlpha /\ [][NextJpegAlpha]_vars

---------------------------------------------------------------------------
(* Calls of decode_define_bits_jpeg on a JPEG the decoder reports as one   *)
(* CMYK32 pixel: every quad over CmykSamples, and every (channel, K) pair  *)
(* of bytes with the three colour channels equal.                          *)

CmykSamples == {0, 1, 127, 128, 254, 255}

CmykQuads ==
    [1..4 -> CmykSamples] \cup {<<c, c, c, k>> : c \in Byte, k \in Byte}

InitJpegCmyk ==
    /\ call \in [fn : {"decode_define_bits_jpeg"}, data : {SigJpeg \o <<0>>},
                 alpha_data : {None},
                 decoder : {JpegInfo("CMYK32", 1, 1, q) : q \in CmykQuads},
                 adapter : {Err("EmptyGif")}]
    /\ ret = None

NextJpegCmyk == DecodeDefineBitsJpeg

SpecJpegCmyk == InitJpegCmyk /\ [][NextJpegCmyk]_vars

---------------------------------------------------------------------------
(* Calls of glue_tables_to_jpeg.                                           *)

GlueBytes == {\hFF, \hD8, \hD9}

InitGlue ==
    /\ call \in [fn : {"glue_tables_to_jpeg"},
                 jpeg_data : SeqsUpTo(GlueBytes, MaxBody),
                 jpeg_tables : {None} \cup
                               {Some(t) : t \in SeqsUpTo(GlueBytes, MaxTables)}]
    /\ ret = None

GlueTablesToJpeg ==
    /\ call.fn = "glue_tables_to_jpeg"
    /\ ret = None
    /\ ret' = Some(glue_tables_to_jpeg(call.jpeg_data, call.jpeg_tables))
    /\ UNCHANGED call

NextGlue == GlueTablesToJpeg

SpecGlue == InitGlue /\ [][NextGlue]_vars

---------------------------------------------------------------------------
(* Calls of remove_invalid_jpeg_data.  The buffers are concatenations of   *)
(* at most MaxChunks chunks, so that several occurrences of the erroneous  *)
(* header fit in a buffer, next to every short byte string over FF D8 D9   *)
(* 00.                                                                     *)

RemoveChunks ==
    {SigJpegErroneous, <<\hFF, \hD9>>, <<\hFF, \hD8>>, <<\hFF>>, <<\hD8>>, <<0>>}

RemoveInputs == {Concat(cs) : cs \in SeqsUpTo(RemoveChunks, MaxChunks)}

InitRemove ==
    /\ call \in [fn : {"remove_invalid_jpeg_data"}, data : RemoveInputs]
    /\ ret = None

RemoveInvalidJpegData ==
    /\ call.fn = "remove_invalid_jpeg_data"
    /\ ret = None
    /\ ret' = Some(remove_invalid_jpeg_data(call.data))
    /\ UNCHANGED call

NextRemove == RemoveInvalidJpegData

SpecRemove == InitRemove /\ [][NextRemove]_vars

---------------------------------------------------------------------------
(* decode_define_bits_lossless                                             *)
(* A tag is [version, format, width, height, data]; format is              *)
(* [kind, num_colors], num_colors meaning something for ColorMap8 only.    *)
(* width and height are u16 and stay far below 65535 here, so the sums     *)
(* width + 1 and width + 3 do not overflow.                                *)

(* (width + 0b1) & !0b1 and (width + 0b11) & !0b11: x & !mask for a mask   *)
(* of low bits clears x % (mask + 1).                                      *)
padded_to(width, mask) == (width + mask) - ((width + mask) % (mask + 1))

(* compressed >> shift & 0x1F, widened to 8 bits. *)
rgb5_component(compressed, shift) ==
    LET component == (compressed \div (2 ^ shift)) % 32
    IN  as_u8((component * 255 + 15) \div 31)

(* The two nested loops of the Rgb15 arm, from st = [row, col, i, out]. *)
RECURSIVE rgb15_rows(_, _, _, _, _)
rgb15_rows(decoded_data, width, height, padded_width, st) ==
    IF st.row >= height THEN Ok(st.out)
    ELSE IF st.col >= width
    THEN rgb15_rows(decoded_data, width, height, padded_width,
                    [row |-> st.row + 1, col |-> 0,
                     i |-> st.i + (padded_width - width) * 2, out |-> st.out])
    ELSE IF ~InBounds(decoded_data, st.i + 1) THEN Panic
    ELSE LET compressed ==
                 At(decoded_data, st.i) * 256 + At(decoded_data, st.i + 1)
         IN  rgb15_rows(decoded_data, width, height, padded_width,
                        [row |-> st.row, col |-> st.col + 1, i |-> st.i + 2,
                         out |-> st.out \o <<rgb5_component(compressed, 10),
                                             rgb5_component(compressed, 5),
                                             rgb5_component(compressed, 0),
                                             255>>])

(* Faulty variant: the two versions' treatment of byte 3 exchanged. *)
rgb32_rotate_swapped(decoded_data, i, version) ==
    [decoded_data EXCEPT
        ![i + 1] = decoded_data[i + 2],
        ![i + 2] = decoded_data[i + 3],
        ![i + 3] = decoded_data[i + 4],
        ![i + 4] = IF version = 2 THEN 255 ELSE decoded_data[i + 1]]

(* One round of the Rgb32 loops at 0-based offset i, in place: the three   *)
(* colour bytes move down and byte 3 becomes 0xff (version 1) or the       *)
(* former byte 0 (version 2).                                              *)
rgb32_rotate(decoded_data, i, version) ==
    [decoded_data EXCEPT
        ![i + 1] = decoded_data[i + 2],
        ![i + 2] = decoded_data[i + 3],
        ![i + 3] = decoded_data[i + 4],
        ![i + 4] = IF version = 1 THEN 255 ELSE decoded_data[i + 1]]

RECURSIVE rgb32_loop(_, _, _)
rgb32_loop(decoded_data, i, version) ==
    IF ~(i < Len(decoded_data)) THEN Ok(decoded_data)
    ELSE IF ~InBounds(decoded_data, i + 3) THEN Panic
    ELSE rgb32_loop(rgb32_rotate(decoded_data, i, version), i + 4, version)

(* The palette loop of the ColorMap8 arms: `left` entries still to read    *)
(* from offset i, 3 bytes each with a = 255 (version 1) or 4 bytes each    *)
(* (version 2).  Ok([palette, i]) or Panic.                                *)
RECURSIVE read_palette(_, _, _, _, _)
read_palette(decoded_data, version, left, i, palette) ==
    IF left = 0 THEN Ok([palette |-> palette, i |-> i])
    ELSE IF version = 1
    THEN IF ~InBounds(decoded_data, i + 2) THEN Panic
         ELSE read_palette(decoded_data, version, left - 1, i + 3,
                  Append(palette, [r |-> At(decoded_data, i),
                                   g |-> At(decoded_data, i + 1),
                                   b |-> At(decoded_data, i + 2),
                                   a |-> 255]))
    ELSE IF ~InBounds(decoded_data, i + 3) THEN Panic
         ELSE read_palette(decoded_data, version, left - 1, i + 4,
                  Append(palette, [r |-> At(decoded_data, i),
                                   g |-> At(decoded_data, i + 1),
                                   b |-> At(decoded_data, i + 2),
                                   a |-> At(decoded_data, i + 3)]))

(* Faulty variant: opaque black in both versions. *)
out_of_range_fill_opaque(version) == <<0, 0, 0, 255>>

(* What the else branch of `entry < palette.len()` pushes. *)
out_of_range_fill(version) ==
    IF version = 1 THEN <<0, 0, 0, 255>> ELSE <<0, 0, 0, 0>>

(* The two nested loops of the ColorMap8 arms, from st = [row, col, i, out]. *)
RECURSIVE colormap8_rows(_, _, _, _, _, _, _)
colormap8_rows(decoded_data, palette, version, width, height, padded_width, st) ==
    IF st.row >= height THEN Ok(st.out)
    ELSE IF st.col >= width
    THEN colormap8_rows(decoded_data, palette, version, width, height, padded_width,
                        [row |-> st.row + 1, col |-> 0,
                         i |-> st.i + (padded_width - width), out |-> st.out])
    ELSE IF ~InBounds(decoded_data, st.i) THEN Panic
    ELSE LET entry == At(decoded_data, st.i)
             pixel == IF entry < Len(palette)
                      THEN LET color == palette[entry + 1]
                           IN  <<color.r, color.g, color.b, color.a>>
                      ELSE out_of_range_fill(version)
         IN  colormap8_rows(decoded_data, palette, version, width, height,
                            padded_width,
                            [row |-> st.row, col |-> st.col + 1, i |-> st.i + 1,
                             out |-> st.out \o pixel])

LoopStart(i) == [row |-> 0, col |-> 0, i |-> i, out |-> <<>>]

(* Faulty variant: the layout alone picks the arm, so no combination falls *)
(* through to the error.                                                   *)
swizzle_any_version(tag, decoded_data) ==
    CASE tag.format.kind = "Rgb15" ->
            rgb15_rows(decoded_data, tag.width, tag.height,
                       padded_to(tag.width, 1), LoopStart(0))
      [] tag.format.kind = "Rgb32" ->
            rgb32_loop(decoded_data, 0, IF tag.version = 2 THEN 2 ELSE 1)
      [] tag.format.kind = "ColorMap8" ->
            LET v == IF tag.version = 2 THEN 2 ELSE 1
                pal == read_palette(decoded_data, v,
                                    tag.format.num_colors + 1, 0, <<>>)
            IN  IF ~pal.ok THEN Panic
                ELSE colormap8_rows(decoded_data, pal.val.palette, v,
                                    tag.width, tag.height,
                                    padded_to(tag.width, 3), LoopStart(pal.val.i))

(* The match on (version, format): Ok(out_data), Panic, or the error of    *)
(* the fallthrough arm.                                                    *)
swizzle(tag, decoded_data) ==
    CASE tag.version = 1 /\ tag.format.kind = "Rgb15" ->
            rgb15_rows(decoded_data, tag.width, tag.height,
                       padded_to(tag.width, 1), LoopStart(0))
      [] tag.version \in {1, 2} /\ tag.format.kind = "Rgb32" ->
            rgb32_loop(decoded_data, 0, tag.version)
      [] tag.version \in {1, 2} /\ tag.format.kind = "ColorMap8" ->
            LET pal == read_palette(decoded_data, tag.version,
                                    tag.format.num_colors + 1, 0, <<>>)
            IN  IF ~pal.ok THEN Panic
                ELSE colormap8_rows(decoded_data, pal.val.palette, tag.version,
                                    tag.width, tag.height,
                                    padded_to(tag.width, 3), LoopStart(pal.val.i))
      [] OTHER ->
            ErrWith("UnsupportedLosslessFormat", <<tag.version, tag.format>>)

decode_define_bits_lossless(swf_tag) ==
    LET decoded_data == decompress_zlib(swf_tag.data)
    IN  IF ~decoded_data.ok THEN Err(decoded_data.err)
        ELSE LET out_data == swizzle(swf_tag, decoded_data.val)
             IN  IF out_data.ok
                 THEN Ok(Bitmap_new(swf_tag.width, swf_tag.height, "Rgba",
                                    out_data.val))
                 ELSE out_data

DecodeDefineBitsLossless ==
    /\ call.fn = "decode_define_bits_lossless"
    /\ ret = None
    /\ ret' = Some(decode_define_bits_lossless(call.swf_tag))
    /\ UNCHANGED call

---------------------------------------------------------------------------
(* Calls of decode_define_bits_lossless: every version 0..3 and layout,    *)
(* small dimensions, and payloads that fail to decompress or decompress    *)
(* to a sample buffer of any length up to MaxData.                         *)

MaxWidth == 5
MaxHeight == 2
MaxNumColors == 1
MaxData == 16

Versions == 0..3

LosslessFormats ==
    {[kind |-> "Rgb15", num_colors |-> 0], [kind |-> "Rgb32", num_colors |-> 0]}
    \cup {[kind |-> "ColorMap8", num_colors |-> n] : n \in 0..MaxNumColors}

LosslessPayloads ==
    {InvalidZlib} \cup
    {ValidZlib(Gen(len, off, stride)) :
        len \in 0..MaxData, off \in 0..(Len(SamplePattern) - 1), stride \in {1, 5}}

InitLossless ==
    /\ call \in [fn : {"decode_define_bits_lossless"},
                 swf_tag : [version : Versions, format : LosslessFormats,
                            width : 0..MaxWidth, height : 0..MaxHeight,
                            data : LosslessPayloads]]
    /\ ret = None

NextLossless == DecodeDefineBitsLossless

SpecLossless == InitLossless /\ [][NextLossless]_vars

---------------------------------------------------------------------------
(* Properties of glue_tables_to_jpeg.                                      *)

Max(a, b) == IF a >= b THEN a ELSE b

(* C4: glue_tables_to_jpeg(body, None) is body; with tables of length >= 2 *)
(* the output is tables without its last two bytes followed by body        *)
(* without its first two bytes, of length tables.len()-2 +                 *)
(* max(0, body.len()-2); tables shorter than 2 bytes leave body unchanged. *)
C4_GlueTables ==
    (call.fn = "glue_tables_to_jpeg" /\ is_some(ret)) =>
        LET body == call.jpeg_data
            out == unwrap(ret)
        IN  IF is_some(call.jpeg_tables) /\ Len(unwrap(call.jpeg_tables)) >= 2
            THEN LET tables == unwrap(call.jpeg_tables)
                     n == Len(tables) - 2
                 IN  /\ Len(out) = n + Max(0, Len(body) - 2)
                     /\ \A i \in 1..n : out[i] = tables[i]
                     /\ \A j \in 1..(Len(body) - 2) : out[n + j] = body[j + 2]
            ELSE out = body

C4_Witness ==
    /\ call.fn = "glue_tables_to_jpeg"
    /\ is_some(ret)
    /\ is_some(call.jpeg_tables)
    /\ Len(unwrap(call.jpeg_tables)) = 3
    /\ Len(call.jpeg_data) = 3
    /\ unwrap(ret) = <<unwrap(call.jpeg_tables)[1], call.jpeg_data[3]>>

---------------------------------------------------------------------------
(* Properties of remove_invalid_jpeg_data.                                 *)

(* The 0-based offsets at which the erroneous header occurs in data. *)
Occurrences(data) ==
    {p \in 0..(Len(data) - 4) : SubSeq(data, p + 1, p + 4) = SigJpegErroneous}

MinOf(S) == CHOOSE m \in S : \A x \in S : m <= x

(* data with the 4 bytes at 0-based offset p cut out. *)
Excise(data, p) == SubSeq(data, 1, p) \o SubSeq(data, p + 5, Len(data))

(* C3: a leading FF D9 FF D8 is stripped (exactly those 4 bytes when the   *)
(* rest holds no occurrence, as in FF D9 FF D8 FF D8 ...); then the first  *)
(* occurrence in the rest, if any, is cut out (output = bytes before it ++ *)
(* bytes after it) and every later occurrence stays in the output, 4 bytes *)
(* earlier; with no occurrence at all the output equals the input.         *)
C3_RemoveInvalid ==
    (call.fn = "remove_invalid_jpeg_data" /\ is_some(ret)) =>
        LET data == call.data
            out == unwrap(ret)
            lead == starts_with(data, SigJpegErroneous)
            rest == IF lead THEN SubSeq(data, 5, Len(data)) ELSE data
            occ == Occurrences(rest)
        IN  /\ (Occurrences(data) = {}) => out = data
            /\ (lead /\ occ = {}) => out = SubSeq(data, 5, Len(data))
            /\ (occ # {}) => out = Excise(rest, MinOf(occ))
            /\ \A q \in occ :
                  q # MinOf(occ) => SubSeq(out, q - 3, q) = SigJpegErroneous
            /\ Len(out) >= Len(rest) - 4

C3_Witness ==
    /\ call.fn = "remove_invalid_jpeg_data"
    /\ is_some(ret)
    /\ starts_with(call.data, SigJpegErroneous \o SigJpeg)
    /\ Cardinality(Occurrences(SubSeq(call.data, 5, Len(call.data)))) = 2
    /\ Cardinality(Occurrences(unwrap(ret))) = 1

---------------------------------------------------------------------------
(* Properties of determine_jpeg_tag_format and decode_define_bits_jpeg.    *)

(* data begins with sig, byte by byte. *)
BeginsWith(data, sig) ==
    /\ Len(data) >= Len(sig)
    /\ \A i \in 1..Len(sig) : data[i] = sig[i]

NoSignature(data) ==
    \A sig \in {SigJpeg, SigJpegErroneous, SigPng, SigGif} : ~BeginsWith(data, sig)

(* C8: on a buffer that begins with none of the four signatures (shorter   *)
(* buffers and the empty one included) determine_jpeg_tag_format returns   *)
(* Unknown and decode_define_bits_jpeg returns Err(UnknownType), with or   *)
(* without alpha data.                                                     *)
C8_UnknownType ==
    (is_some(ret) /\ NoSignature(call.data)) =>
        /\ call.fn = "determine_jpeg_tag_format" => unwrap(ret) = "Unknown"
        /\ call.fn = "decode_define_bits_jpeg" =>
              (~unwrap(ret).ok /\ unwrap(ret).err = "UnknownType")

C8_Witness ==
    /\ call.fn = "decode_define_bits_jpeg"
    /\ is_some(call.alpha_data)
    /\ call.decoder.ok
    /\ call.adapter.ok
    /\ call.data = SubSeq(SigPng, 1, 7)
    /\ ret = Some(Err("UnknownType"))

(* The call went down the JPEG path and the JPEG decoder succeeded. *)
JpegDecoded ==
    /\ call.fn = "decode_define_bits_jpeg"
    /\ is_some(ret)
    /\ BeginsWith(call.data, SigJpeg) \/ BeginsWith(call.data, SigJpegErroneous)
    /\ call.decoder.ok

NormalizedRgb ==
    normalize_pixel_format(call.decoder.val.pixel_format,
                           call.decoder.val.decoded_data)

AlphaDecompressed == is_some(call.alpha_data) /\ unwrap(call.alpha_data).valid

AlphaLen == Len(unwrap(call.alpha_data).plain)

(* C6: an alpha plane that decompresses to a length other than             *)
(* rgb.len()/3 does not fail the call: it returns an Rgb bitmap holding    *)
(* the normalized RGB bytes.  A returned bitmap is Rgba exactly when alpha *)
(* is present with length rgb.len()/3, and Rgb otherwise; and a bitmap is  *)
(* returned whenever the alpha plane is absent or decompresses and rgb     *)
(* holds whole 3-byte pixels.                                              *)
C6_AlphaMismatch ==
    JpegDecoded =>
        LET rgb == NormalizedRgb
            res == unwrap(ret)
        IN  /\ (AlphaDecompressed /\ AlphaLen # Len(rgb) \div 3) =>
                  /\ res.ok
                  /\ res.val.format = "Rgb"
                  /\ res.val.pixels = rgb
            /\ res.ok =>
                  /\ res.val.format \in {"Rgb", "Rgba"}
                  /\ res.val.format = "Rgba" <=>
                        (AlphaDecompressed /\ AlphaLen = Len(rgb) \div 3)
            /\ ((call.alpha_data = None \/ AlphaDecompressed)
                    /\ Len(rgb) % 3 = 0) => res.ok

C6_Witness ==
    /\ JpegDecoded
    /\ AlphaDecompressed
    /\ AlphaLen = 3
    /\ call.decoder.val.pixel_format = "L8"
    /\ Len(NormalizedRgb) = 6
    /\ unwrap(ret).ok
    /\ unwrap(ret).val.format = "Rgb"
    /\ Len(unwrap(ret).val.pixels) = 6

(* The call normalized one CMYK32 pixel. *)
CmykDecoded ==
    /\ JpegDecoded
    /\ call.decoder.val.pixel_format = "CMYK32"
    /\ Len(call.decoder.val.decoded_data) = 4
    /\ call.alpha_data = None

CmykQuad == call.decoder.val.decoded_data

(* C2 as stated: C=0, M=0, Y=0, K=255 yields the RGB triple (255,255,255). *)
C2_Original ==
    (CmykDecoded /\ CmykQuad = <<0, 0, 0, 255>>) =>
        unwrap(ret) = Ok(Bitmap_new(1, 1, "Rgb", <<255, 255, 255>>))

(* C2 amended: C=0, M=0, Y=0, K=255 yields the RGB triple (1,1,1): by the  *)
(* stated formula c = m = y = 255 and k = 256-255 = 1, so each channel is  *)
(* 255*1/255 = 1.                                                          *)
C2_Amended ==
    (CmykDecoded /\ CmykQuad = <<0, 0, 0, 255>>) =>
        unwrap(ret) = Ok(Bitmap_new(1, 1, "Rgb", <<1, 1, 1>>))

C2_Witness ==
    /\ CmykDecoded
    /\ CmykQuad = <<0, 0, 0, 255>>
    /\ unwrap(ret).ok
    /\ Len(unwrap(ret).val.pixels) = 3

(* (255-ch)*(256-K)/255 over the integers, truncating. *)
CmykChannel(ch, k) == ((255 - ch) * (256 - k)) \div 255

(* C10: for every CMYK quad the three emitted bytes equal                  *)
(* (255-C)*(256-K)/255, (255-M)*(256-K)/255 and (255-Y)*(256-K)/255 as     *)
(* numbers, each of them in 0..255 (nothing overflows or wraps around).    *)
C10_CmykNoWrap ==
    CmykDecoded =>
        LET q == CmykQuad
            px == unwrap(ret).val.pixels
        IN  /\ unwrap(ret).ok
            /\ Len(px) = 3
            /\ \A i \in 1..3 :
                  /\ CmykChannel(q[i], q[4]) \in 0..255
                  /\ px[i] = CmykChannel(q[i], q[4])

---------------------------------------------------------------------------
(* Properties of decode_define_bits_lossless.                              *)

LosslessCalled == call.fn = "decode_define_bits_lossless" /\ is_some(ret)

(* The call returned a Bitmap. *)
LosslessDecoded == LosslessCalled /\ unwrap(ret).ok

Tag == call.swf_tag
Plain == call.swf_tag.data.plain
Pixels == unwrap(ret).val.pixels

(* The output pixel at 0-based index p. *)
PixelAt(pixels, p) == SubSeq(pixels, 4 * p + 1, 4 * p + 4)

SupportedLossless ==
    {<<1, "Rgb15">>, <<1, "Rgb32">>, <<2, "Rgb32">>,
     <<1, "ColorMap8">>, <<2, "ColorMap8">>}

Unsupported == <<Tag.version, Tag.format.kind>> \notin SupportedLossless

UnsupportedError ==
    ErrWith("UnsupportedLosslessFormat", <<Tag.version, Tag.format>>)

(* C7 as stated: for an unsupported (version, layout) and every compressed *)
(* payload the call returns UnsupportedLosslessFormat(version, layout).    *)
C7_Original ==
    (LosslessCalled /\ Unsupported) => unwrap(ret) = UnsupportedError

(* C7 amended: for an unsupported (version, layout) and every payload that *)
(* decompresses, the call returns UnsupportedLosslessFormat carrying that  *)
(* version and layout and no Bitmap; a payload that does not decompress    *)
(* returns InvalidZlibCompression instead, whatever the descriptor.        *)
C7_Amended ==
    (LosslessCalled /\ Unsupported) =>
        IF Tag.data.valid
        THEN unwrap(ret) = UnsupportedError
        ELSE unwrap(ret) = Err("InvalidZlibCompression")

C7_Witness ==
    /\ LosslessCalled
    /\ Tag.version = 2
    /\ Tag.format.kind = "Rgb15"
    /\ Tag.data.valid
    /\ Len(Plain) >= Tag.width * Tag.height * 4
    /\ Tag.width * Tag.height > 0
    /\ ~unwrap(ret).ok
    /\ unwrap(ret).err = "UnsupportedLosslessFormat"
    /\ unwrap(ret).fields = <<2, [kind |-> "Rgb15", num_colors |-> 0]>>

(* C9: Rgb32 decoding maps the source pixel [x,R,G,B] at each position to  *)
(* [R,G,B,255] in version 1 and to [R,G,B,x] in version 2; the 2x1         *)
(* version-1 buffer [0,10,20,30, 0,40,50,60] gives                         *)
(* [10,20,30,255, 40,50,60,255].                                           *)
C9_Rgb32 ==
    (LosslessDecoded /\ Tag.format.kind = "Rgb32") =>
        /\ Len(Pixels) = Len(Plain)
        /\ \A p \in 0..((Len(Plain) \div 4) - 1) :
              LET src == PixelAt(Plain, p)
              IN  PixelAt(Pixels, p) =
                      <<src[2], src[3], src[4],
                        IF Tag.version = 1 THEN 255 ELSE src[1]>>
        /\ (Tag.version = 1 /\ Plain = <<0, 10, 20, 30, 0, 40, 50, 60>>) =>
              Pixels = <<10, 20, 30, 255, 40, 50, 60, 255>>

C9_Witness ==
    /\ LosslessDecoded
    /\ Tag.format.kind = "Rgb32"
    /\ Tag.version = 1
    /\ Tag.width = 2
    /\ Tag.height = 1
    /\ Plain = <<0, 10, 20, 30, 0, 40, 50, 60>>
    /\ Pixels = <<10, 20, 30, 255, 40, 50, 60, 255>>

(* The layout of a ColorMap8 payload: palette entries of EntrySize bytes,  *)
(* then rows of RowStride index bytes.                                     *)
PaletteLen == Tag.format.num_colors + 1
EntrySize == IF Tag.version = 1 THEN 3 ELSE 4
RowStride == CHOOSE s \in Tag.width..(Tag.width + 3) : s % 4 = 0
IndexByte(x, y) == Plain[PaletteLen * EntrySize + y * RowStride + x + 1]

InRange(x, y) == IndexByte(x, y) < PaletteLen

(* C5: a ColorMap8 pixel whose index byte is < num_colors+1 gets that      *)
(* palette entry's colour (alpha 255 in version 1, the stored alpha in     *)
(* version 2); one whose index byte is >= num_colors+1 becomes [0,0,0,255] *)
(* in version 1 and [0,0,0,0] in version 2.                                *)
C5_ColorMap8 ==
    (LosslessDecoded /\ Tag.format.kind = "ColorMap8") =>
        \A x \in 0..(Tag.width - 1), y \in 0..(Tag.height - 1) :
            LET pixel == PixelAt(Pixels, y * Tag.width + x)
                e == IndexByte(x, y) * EntrySize
            IN  IF InRange(x, y)
                THEN pixel = <<Plain[e + 1], Plain[e + 2], Plain[e + 3],
                               IF Tag.version = 1 THEN 255 ELSE Plain[e + 4]>>
                ELSE pixel = IF Tag.version = 1
                             THEN <<0, 0, 0, 255>> ELSE <<0, 0, 0, 0>>

C5_Witness ==
    /\ LosslessDecoded
    /\ Tag.format.kind = "ColorMap8"
    /\ Tag.version = 2
    /\ Tag.format.num_colors = 1
    /\ Tag.width = 2
    /\ Tag.height = 2
    /\ InRange(0, 0)
    /\ Plain[IndexByte(0, 0) * 4 + 4] \notin {0, 255}
    /\ ~InRange(1, 1)
    /\ PixelAt(Pixels, 3) = <<0, 0, 0, 0>>

====
